---- MODULE Spec2Model ----
(***************************************************************************)
(* State machine of the SlidesGenerator viewer (the richer variant, with   *)
(* transition lock, progress bar and image preloading) and of the          *)
(* generate-presentation tool.                                             *)
(*                                                                         *)
(* Outside SpecPlayback, SpecTimed and SpecLock timers are modelled by     *)
(* their status, not by a clock: a one-shot timeout                        *)
(* is a flag set by setTimeout and cleared when the callback runs; an      *)
(* interval can tick exactly while the effect that created it is mounted.  *)
(* The only ordering kept is that of the two timeouts one navigation sets: *)
(* the 50ms one runs before the 400ms one.  The 5000ms autoplay interval   *)
(* is not restarted by navigation, so its tick can fall anywhere in a      *)
(* 400ms lock window.                                                      *)
(*                                                                         *)
(* Spec        text-only decks, every control, timer and deck replacement  *)
(* SpecApi     Spec, plus goToSlide called directly with any number        *)
(* SpecImages  decks with images in a paused viewer: indicator navigation, *)
(*             deck replacement and the preload callbacks                  *)
(* SpecScreen  one deck whose slides all carry images, in a paused viewer: *)
(*             indicator navigation, preload and <img> callbacks, retry    *)
(* SpecKeys    text-only decks driven from the keyboard, with the host's   *)
(*             fullscreen state                                            *)
(* SpecButtons decks with images driven through the buttons, with a       *)
(*             document that grants fullscreen requests                    *)
(* SpecExport  one deck with images: indicator navigation, preload         *)
(*             callbacks and the PDF export                                *)
(* SpecPlayback  autoplay from mount with no input, on a clock: time moves *)
(*             from one due interval callback to the next                  *)
(* SpecNames   titles over sample characters: preload callbacks and the    *)
(*             PDF export up to the saved file name                        *)
(* SpecTimed   text-only decks on a clock: navigation, play/pause, reset,  *)
(*             the two intervals and the two timeouts of a navigation      *)
(* SpecLock    SpecTimed without play/pause and reset, for the release of  *)
(*             the transition lock                                         *)
(* SpecTool    one call of generate-presentation: template or generated    *)
(*             slides, trimming, one image search per slide                *)
(***************************************************************************)
EXTENDS Integers, FiniteSets, Sequences, TLC

\* ---------------------------------------------------------------- bounds
\* longest deck handed to the viewer
MaxLen == 3
\* number of times the slides prop is replaced in one behaviour
MaxDecks == 2
\* longest deck with images handed to the viewer
MaxImageLen == 2
\* at most this many slides of a deck carry an imageUrl
MaxImages == 1
\* number of times a deck with images is replaced in one behaviour
MaxImageDecks == 1
\* the progress interval is followed for this many 100ms sub-steps from 0
MaxProgressSteps == 2
\* timed playback is followed for this many autoplay periods
MaxPeriods == 3
\* longest title handed to the viewer
MaxTitleLen == 2

\* ------------------------------------------------------ program constants
\* Math.min(prev + 100 / 50, 100)
ProgressMax == 100
ProgressTicks == 50
ProgressStep == ProgressMax \div ProgressTicks
\* setInterval(..., 5000) of the autoplay effect
AutoplayPeriod == 5000
\* setInterval(..., 100) of the progress effect
ProgressPeriod == 100
\* setTimeout(() => setProgress(0), 50) of the navigation handlers
ProgressResetDelay == 50
\* setTimeout(() => setIsTransitioning(false), 400) of the navigation handlers
LockDelay == 400

VARIABLES
    title,             \* the title prop: a sequence of characters
    slides,            \* the slides prop: [id, len, imgs]; id names the array reference
    autoPlay,          \* the autoPlay prop
    showProgress,      \* the showProgress prop
    currentSlide,      \* useState(0)
    isPlaying,         \* useState(autoPlay)
    progress,          \* useState(0)
    imageError,        \* useState<Record<number, boolean>>({})
    imageLoaded,       \* useState<Record<number, boolean>>({})
    isTransitioning,   \* useState(false)
    progressTimer,     \* a setTimeout(() => setProgress(0), 50) is pending
    lockTimer,         \* a setTimeout(() => setIsTransitioning(false), 400) is pending
    preloads,          \* new Image() objects whose onload/onerror has not fired yet
    isFullscreen,      \* useState(false)
    host,              \* the document: fullscreenElement set, request in progress,
                       \* fullscreenchange event dispatched and not yet handled
    screenLoads,       \* rendered <img> elements whose load/error event has not fired yet
    export,            \* the exportPresentation call in progress and the document it builds
    tool,              \* the generate-presentation call in progress and its result
    clock,             \* ms to the next interval callbacks, in timed playback
    lastOp,            \* history: the handler that ran last and whether its guard let it through
    run                \* history: the current streak of accepted nextSlide / prevSlide calls

vars == <<title, slides, autoPlay, showProgress, currentSlide, isPlaying, progress,
          imageError, imageLoaded, isTransitioning, progressTimer, lockTimer,
          preloads, isFullscreen, host, screenLoads, export, tool, clock,
          lastOp, run>>

\* the session state owned by the viewer instance
session == <<currentSlide, isPlaying, isTransitioning, progress, imageError,
             imageLoaded, progressTimer, lockTimer, isFullscreen>>

\* what lies outside the viewer's navigation and image state
outside == <<host, export, tool>>

props == <<title, slides, autoPlay, showProgress>>

\* ---------------------------------------------------------------- helpers
\* slides.length
length == slides.len

\* an empty Record<number, boolean>
EmptyRecord == [i \in {} |-> TRUE]

\* as Spread, without ...prev
SpreadAlone(prev, index, value) == [i \in {index} |-> value]

\* { ...prev, [index]: value }
Spread(prev, index, value) ==
    [i \in (DOMAIN prev) \cup {index} |-> IF i = index THEN value ELSE prev[i]]

\* record[index] read as a condition: a missing key is undefined, hence falsy
Truthy(record, index) == index \in DOMAIN record /\ record[index]

\* what the renderer shows for a slide's image: the failure placeholder when
\* imageError[id], else the image, under a skeleton until imageLoaded[id]
ImageStatus(loaded, error, index) ==
    IF Truthy(error, index) THEN "failed"
    ELSE IF Truthy(loaded, index) THEN "loaded"
    ELSE "pending"

\* the decks the caller can supply: up to maxLen slides, of which at most
\* maxImages carry an imageUrl (imgs: the indices of the slides that do)
Decks(maxLen, maxImages) ==
    {d \in [len : 0 .. maxLen, imgs : SUBSET (0 .. maxLen - 1)] :
        d.imgs \subseteq 0 .. d.len - 1 /\ Cardinality(d.imgs) <= maxImages}

\* the slides prop: a deck held in array reference number id
Deck(id, d) == [id |-> id, len |-> d.len, imgs |-> d.imgs]

\* slides.forEach: one new Image() per slide that has an imageUrl
StartPreloads(deck) == {[deck |-> deck.id, index |-> i] : i \in deck.imgs}

\* currentSlideData.imageUrl && !imageError[currentSlideData.id]: the slide on
\* screen shows an <img>
ImgRendered(deck, index, error) ==
    index \in deck.imgs /\ ~Truthy(error, index)

\* the load started by an <img> that is created for slide index of deck
ImgLoad(deck, index, error) ==
    IF ImgRendered(deck, index, error)
    THEN {[deck |-> deck.id, index |-> index]}
    ELSE {}

\* key={currentSlide}: a change of index replaces the slide's element and with
\* it the <img>, whose pending event is lost.  The 0.4s of the exit animation,
\* during which the old element is still mounted, are not followed.
Remount(index) ==
    IF index = currentSlide
    THEN screenLoads
    ELSE ImgLoad(slides, index, imageError)

\* the loads of <img> elements that belong to the slide on screen
CurrentLoads == {l \in screenLoads : l.deck = slides.id /\ l.index = currentSlide}

\* what the component returns: the 'No slides available' fallback, the 'Slide
\* data not found' fallback, or the slide
View ==
    IF length = 0 THEN "empty"
    ELSE IF currentSlide \notin 0 .. length - 1 THEN "notFound"
    ELSE "slide"

NoHost == [fullscreen |-> FALSE, request |-> "none", event |-> FALSE]

NoExport == [pc |-> "idle", title |-> <<>>,
             deck |-> [id |-> 0, len |-> 0, imgs |-> {}],
             error |-> EmptyRecord, i |-> 0, pages |-> <<>>, alerts |-> 0,
             file |-> <<>>]

\* ------------------------------------------------ the generate-presentation tool
\* z.number().min(3).max(10).optional()
MinSlideCount == 3
MaxSlideCount == 10
\* slideCount = 5 in the destructuring of params
DefaultSlideCount == 5
\* every entry of PRESENTATION_TEMPLATES has five slides
TemplateLen == 5
\* the entries of contentTopics in generateDynamicSlides
ContentTopics == 6

\* an optional parameter: the empty set when omitted, else the set of its value
Optional(values) == {{}} \cup {{v} : v \in values}

\* const { x = d } = params
Default(opt, d) == IF opt = {} THEN d ELSE CHOOSE v \in opt : TRUE

\* a slide of a template or of generateDynamicSlides: intro first, outro last;
\* heading and description are named by where the slide comes from
Slide(from, type, k) ==
    [type |-> type, heading |-> <<from, k>>, description |-> <<from, k>>]

\* the slides array of the template the lookup selected
TemplateSlides ==
    [k \in 1 .. TemplateLen |->
        Slide("template",
              IF k = 1 THEN "intro" ELSE IF k = TemplateLen THEN "outro" ELSE "content",
              k)]

\* Array.prototype.slice(0, n)
Slice(s, n) == SubSeq(s, 1, IF n < Len(s) THEN n ELSE Len(s))

\* generateDynamicSlides(topic, domain, count)
DynamicSlides(count) ==
    LET contentCount ==
            IF count - 2 < ContentTopics THEN count - 2 ELSE ContentTopics
    IN  Slice(<<Slide("dynamic", "intro", 0)>>
                \o [i \in 1 .. contentCount |-> Slide("dynamic", "content", i)]
                \o <<Slide("dynamic", "outro", 0)>>,
              count)

\* what tools[1].tool({ query }) does: resolves with results, resolves with an
\* empty array, or throws (no access key, response not ok, fetch rejected)
SearchOutcomes == {"found", "empty", "failed"}

\* the fields the map callback adds to a slide; "none" is a field left undefined
ImageFields(outcome) ==
    CASE outcome = "found" ->
            [imageQuery |-> "query", imageUrl |-> "result", imageAlt |-> "result",
             photographer |-> "result", unsplashUrl |-> "result",
             suggestedImage |-> "none"]
      [] outcome = "empty" ->
            [imageQuery |-> "query", imageUrl |-> "fallback",
             imageAlt |-> "fallback", photographer |-> "none",
             unsplashUrl |-> "none", suggestedImage |-> "none"]
      [] OTHER ->
            [imageQuery |-> "query", imageUrl |-> "none", imageAlt |-> "none",
             photographer |-> "none", unsplashUrl |-> "none",
             suggestedImage |-> "fallback"]

\* { ...slide, imageQuery, ... }
WithImage(slide, outcome) == ImageFields(outcome) @@ slide

NoTool == [pc |-> "idle", slideCount |-> {}, includeImages |-> {},
           matched |-> FALSE, selected |-> <<>>, searches |-> <<>>,
           slides |-> <<>>]

\* sample characters of a title: ASCII lower case, ASCII upper case, digit,
\* space, and a letter outside ASCII
Chars == {"a", "Z", "7", " ", "é"}

\* the titles of at most maxLen characters
Titles(maxLen) == UNION {[1 .. n -> Chars] : n \in 0 .. maxLen}

\* /[^a-z0-9]/gi without the u flag: what is not an ASCII letter or digit
NotAlnum(c) == c \notin {"a", "Z", "7"}

\* String.prototype.toLowerCase, on one character
LowerCase(c) == IF c = "Z" THEN "z" ELSE c

Suffix == "_presentation.pdf"

\* as FileName, without toLowerCase()
FileNameCased(t) ==
    [k \in 1 .. Len(t) |-> IF NotAlnum(t[k]) THEN "_" ELSE t[k]] \o <<Suffix>>

\* `${title.replace(/[^a-z0-9]/gi, '_').toLowerCase()}_presentation.pdf`, the
\* suffix kept as one element
FileName(t) ==
    [k \in 1 .. Len(t) |-> LowerCase(IF NotAlnum(t[k]) THEN "_" ELSE t[k])]
        \o <<Suffix>>

NoClock == [elapsed |-> 0, autoplay |-> -1, progress |-> -1, reset |-> -1,
            lock |-> -1, ticks |-> 0]

\* as NextIndex, but stopping at the last slide instead of wrapping
NextIndexClamped(prev, len) == IF prev >= len - 1 THEN len - 1 ELSE prev + 1

\* prev >= slides.length - 1 ? 0 : prev + 1
NextIndex(prev, len) == IF prev >= len - 1 THEN 0 ELSE prev + 1

\* as PrevIndex, but stopping at the first slide instead of wrapping
PrevIndexClamped(prev, len) == IF prev <= 0 THEN 0 ELSE prev - 1

\* prev <= 0 ? slides.length - 1 : prev - 1
PrevIndex(prev, len) == IF prev <= 0 THEN len - 1 ELSE prev - 1

\* as NavBlocked, without the tests of the deck
NavBlockedNoEmpty == isTransitioning

\* as NavBlocked, without the isTransitioning test
NavBlockedNoLock == length = 0

\* !slides || slides.length === 0 || isTransitioning
NavBlocked == length = 0 \/ isTransitioning

NoRun == [op |-> "none", start |-> 0, count |-> 0]

\* arg: the index passed to goToSlide, the slide of a preload, the number of
\* image records a deck replacement found, the index a reset was called at,
\* the progress an automatic advance found; deck: the array reference concerned
Op(name, arg, deck, accepted) ==
    [name |-> name, arg |-> arg, deck |-> deck, accepted |-> accepted]

\* streak bookkeeping for an accepted nextSlide / prevSlide
Streak(op) ==
    IF run.op = op /\ run.count < length
    THEN [run EXCEPT !.count = @ + 1]
    ELSE [op |-> op, start |-> currentSlide, count |-> 1]

\* ------------------------------------------------------------------- Init
\* the state after the first render and its effects
MountTitled(titles, decks, autoPlays) ==
    /\ title \in titles
    /\ \E d \in decks : slides = Deck(0, d)
    /\ autoPlay \in autoPlays
    /\ showProgress \in BOOLEAN
    /\ currentSlide = 0
    /\ isPlaying = autoPlay
    /\ progress = 0
    /\ imageError = EmptyRecord
    /\ imageLoaded = EmptyRecord
    /\ isTransitioning = FALSE
    /\ progressTimer = FALSE
    /\ lockTimer = FALSE
    /\ preloads = StartPreloads(slides)
    /\ isFullscreen = FALSE
    /\ host = NoHost
    /\ screenLoads = ImgLoad(slides, 0, EmptyRecord)
    /\ export = NoExport
    /\ tool = NoTool
    /\ lastOp = Op("mount", -1, 0, TRUE)
    /\ run = NoRun

\* the first render with an empty title
Mount(decks, autoPlays) == MountTitled({<<>>}, decks, autoPlays)

\* text-only decks, either autoPlay setting
Init == Mount(Decks(MaxLen, 0), BOOLEAN) /\ clock = NoClock

\* decks with images, autoPlay left at its default
InitImages == Mount(Decks(MaxImageLen, MaxImages), {FALSE}) /\ clock = NoClock

\* ---------------------------------------------------------------- actions
\* an input that matches no branch of its handler
Ignored(name) ==
    /\ lastOp' = Op(name, -1, slides.id, FALSE)
    /\ UNCHANGED <<props, session, preloads, screenLoads, outside, clock, run>>

\* the body of nextSlide; name is the input that called it
NextSlideBody(name) ==
    /\ IF NavBlocked
       THEN /\ lastOp' = Op(name, -1, slides.id, FALSE)
            /\ UNCHANGED <<session, run, screenLoads>>
       ELSE /\ isTransitioning' = TRUE
            /\ currentSlide' = NextIndex(currentSlide, length)
            /\ progressTimer' = TRUE
            /\ lockTimer' = TRUE
            /\ screenLoads' = Remount(currentSlide')
            /\ lastOp' = Op(name, -1, slides.id, TRUE)
            /\ run' = Streak("nextSlide")
            /\ UNCHANGED <<isPlaying, progress, imageError, imageLoaded,
                           isFullscreen>>
    /\ UNCHANGED <<props, preloads, outside>>

\* nextSlide, at whatever time it is called
NextSlideCall(name) == NextSlideBody(name) /\ UNCHANGED clock

\* the body of prevSlide
PrevSlideBody(name) ==
    /\ IF NavBlocked
       THEN /\ lastOp' = Op(name, -1, slides.id, FALSE)
            /\ UNCHANGED <<session, run, screenLoads>>
       ELSE /\ isTransitioning' = TRUE
            /\ currentSlide' = PrevIndex(currentSlide, length)
            /\ progressTimer' = TRUE
            /\ lockTimer' = TRUE
            /\ screenLoads' = Remount(currentSlide')
            /\ lastOp' = Op(name, -1, slides.id, TRUE)
            /\ run' = Streak("prevSlide")
            /\ UNCHANGED <<isPlaying, progress, imageError, imageLoaded,
                           isFullscreen>>
    /\ UNCHANGED <<props, preloads, outside>>

\* prevSlide, at whatever time it is called
PrevSlideCall(name) == PrevSlideBody(name) /\ UNCHANGED clock

\* nextSlide (arrow button)
nextSlide == NextSlideCall("nextSlide")

\* prevSlide (arrow button)
prevSlide == PrevSlideCall("prevSlide")

\* the body of goToSlide
GoToBody(index) ==
    /\ IF NavBlocked
       THEN /\ lastOp' = Op("goToSlide", index, slides.id, FALSE)
            /\ UNCHANGED <<session, run, screenLoads>>
       ELSE /\ isTransitioning' = TRUE
            /\ currentSlide' = index
            /\ progressTimer' = TRUE
            /\ lockTimer' = TRUE
            /\ screenLoads' = Remount(index)
            /\ lastOp' = Op("goToSlide", index, slides.id, TRUE)
            /\ run' = NoRun
            /\ UNCHANGED <<isPlaying, progress, imageError, imageLoaded,
                           isFullscreen>>
    /\ UNCHANGED <<props, preloads, outside>>

\* goToSlide(index), at whatever time it is called
goToSlide(index) == GoToBody(index) /\ UNCHANGED clock

\* the slide indicators: one button per slide of the deck on screen
IndicatorClick == \E index \in 0 .. length - 1 : goToSlide(index)

\* goToSlide called with an arbitrary number, not through an indicator
GoToCall == \E index \in -1 .. MaxLen : goToSlide(index)

\* as ResetCall, also taking the transition lock like a navigation
ResetTakesLock(name) ==
    /\ currentSlide' = 0
    /\ isPlaying' = autoPlay
    /\ progress' = 0
    /\ isTransitioning' = TRUE
    /\ lockTimer' = TRUE
    /\ screenLoads' = Remount(0)
    /\ lastOp' = Op(name, currentSlide, slides.id, TRUE)
    /\ run' = NoRun
    /\ UNCHANGED <<props, imageError, imageLoaded, progressTimer, isFullscreen,
                   preloads, outside, clock>>

\* as ResetCall, also releasing the transition lock
ResetClearsLock(name) ==
    /\ currentSlide' = 0
    /\ isPlaying' = autoPlay
    /\ progress' = 0
    /\ isTransitioning' = FALSE
    /\ screenLoads' = Remount(0)
    /\ lastOp' = Op(name, currentSlide, slides.id, TRUE)
    /\ run' = NoRun
    /\ UNCHANGED <<props, imageError, imageLoaded, progressTimer, lockTimer,
                   isFullscreen, preloads, outside, clock>>

\* as ResetCall, without setIsPlaying(autoPlay)
ResetKeepsPlaying(name) ==
    /\ currentSlide' = 0
    /\ progress' = 0
    /\ screenLoads' = Remount(0)
    /\ lastOp' = Op(name, currentSlide, slides.id, TRUE)
    /\ run' = NoRun
    /\ UNCHANGED <<props, isPlaying, imageError, imageLoaded, isTransitioning,
                   progressTimer, lockTimer, isFullscreen, preloads, outside,
                   clock>>

\* the body of resetPresentation; the history keeps the index it was called at
ResetBody(name) ==
    /\ currentSlide' = 0
    /\ isPlaying' = autoPlay
    /\ progress' = 0
    /\ screenLoads' = Remount(0)
    /\ lastOp' = Op(name, currentSlide, slides.id, TRUE)
    /\ run' = NoRun
    /\ UNCHANGED <<props, imageError, imageLoaded, isTransitioning,
                   progressTimer, lockTimer, isFullscreen, preloads, outside>>

\* resetPresentation, at whatever time it is called
ResetCall(name) == ResetBody(name) /\ UNCHANGED clock

\* resetPresentation (reset button)
resetPresentation == ResetCall("resetPresentation")

\* setIsPlaying(prev => !prev).  The autoplay and progress effects re-run: their
\* intervals exist exactly while isPlaying.
TogglePlayBody(name) ==
    /\ isPlaying' = ~isPlaying
    /\ lastOp' = Op(name, -1, slides.id, TRUE)
    /\ UNCHANGED <<props, currentSlide, progress, imageError, imageLoaded,
                   isTransitioning, progressTimer, lockTimer, isFullscreen,
                   preloads, screenLoads, outside, run>>

\* the toggle, at whatever time it comes
TogglePlayCall(name) == TogglePlayBody(name) /\ UNCHANGED clock

\* play/pause button
TogglePlay == TogglePlayCall("togglePlay")

\* as AutoplayArmed, with an interval that is never cleared
AutoplayNeverCleared == TRUE

\* the autoplay effect: the interval exists from a render with isPlaying to the
\* effect's cleanup (clearInterval) at the next change of isPlaying
AutoplayArmed == isPlaying

\* the callback of the setInterval(..., 5000) of the autoplay effect
AutoplayCallback ==
    /\ AutoplayArmed
    /\ currentSlide' = NextIndex(currentSlide, length)
    /\ progress' = 0
    /\ screenLoads' = Remount(currentSlide')
    /\ lastOp' = Op("autoplayTick", progress, slides.id, TRUE)
    /\ run' = NoRun
    /\ UNCHANGED <<props, isPlaying, imageError, imageLoaded, isTransitioning,
                   progressTimer, lockTimer, isFullscreen, preloads, outside>>

\* the autoplay callback, at whatever time it comes
AutoplayTick == AutoplayCallback /\ UNCHANGED clock

\* the progress effect: its interval exists while isPlaying && showProgress
ProgressArmed == isPlaying /\ showProgress

\* as AddProgress, one unit per callback
AddProgressByOne(prev) ==
    IF prev + 1 < ProgressMax THEN prev + 1 ELSE ProgressMax

\* Math.min(prev + 100 / 50, 100)
AddProgress(prev) ==
    IF prev + ProgressStep < ProgressMax THEN prev + ProgressStep ELSE ProgressMax

\* the callback of the setInterval(..., 100) of the progress effect
ProgressCallback ==
    /\ ProgressArmed
    /\ progress' = AddProgress(progress)
    /\ lastOp' = Op("progressTick", -1, slides.id, TRUE)
    /\ UNCHANGED <<props, currentSlide, isPlaying, imageError, imageLoaded,
                   isTransitioning, progressTimer, lockTimer, isFullscreen,
                   preloads, screenLoads, outside, run>>

\* the progress callback, followed for the first few sub-steps only
ProgressTick ==
    /\ progress < MaxProgressSteps * ProgressStep
    /\ ProgressCallback
    /\ UNCHANGED clock

\* the callback of setTimeout(() => setProgress(0), 50)
ProgressTimeoutCallback ==
    /\ progressTimer
    /\ progress' = 0
    /\ progressTimer' = FALSE
    /\ lastOp' = Op("progressTimeout", -1, slides.id, TRUE)
    /\ UNCHANGED <<props, currentSlide, isPlaying, imageError, imageLoaded,
                   isTransitioning, lockTimer, isFullscreen, preloads,
                   screenLoads, outside, run>>

\* setTimeout(() => setProgress(0), 50) fires
ProgressTimeout == ProgressTimeoutCallback /\ UNCHANGED clock

\* the callback of setTimeout(() => setIsTransitioning(false), 400)
LockTimeoutCallback ==
    /\ lockTimer
    /\ isTransitioning' = FALSE
    /\ lockTimer' = FALSE
    /\ lastOp' = Op("lockTimeout", -1, slides.id, TRUE)
    /\ UNCHANGED <<props, currentSlide, isPlaying, progress, imageError,
                   imageLoaded, progressTimer, isFullscreen, preloads,
                   screenLoads, outside, run>>

\* setTimeout(() => setIsTransitioning(false), 400) fires; the 50ms timeout set by
\* the same navigation has fired before it
LockTimeout ==
    /\ ~progressTimer
    /\ LockTimeoutCallback
    /\ UNCHANGED clock

\* as ResetImageStates, forgetting setImageError({})
ResetLoadedOnly ==
    /\ imageLoaded' = EmptyRecord
    /\ imageError' = imageError

\* what the [slides] effect does to the image records
ResetImageStates ==
    /\ imageLoaded' = EmptyRecord
    /\ imageError' = EmptyRecord

\* The caller renders the viewer with a new slides array.  The component instance
\* and its state are kept; the effects that depend on slides run again, and the
\* element of the slide on screen is rendered from the new deck.
ReplaceDeck(decks, maxDecks) ==
    /\ slides.id < maxDecks
    /\ \E d \in decks : slides' = Deck(slides.id + 1, d)
    /\ ResetImageStates
    /\ preloads' = preloads \cup StartPreloads(slides')
    /\ screenLoads' = (screenLoads \ CurrentLoads)
                          \cup ImgLoad(slides', currentSlide, imageError')
    /\ lastOp' = Op("replaceDeck",
                    Cardinality(DOMAIN imageLoaded \cup DOMAIN imageError),
                    slides'.id, TRUE)
    /\ run' = NoRun
    /\ UNCHANGED <<title, autoPlay, showProgress, currentSlide, isPlaying,
                   progress, isTransitioning, progressTimer, lockTimer,
                   isFullscreen, outside, clock>>

\* img.onload of a preload started by the [slides] effect
PreloadOnLoad(p) ==
    /\ imageLoaded' = Spread(imageLoaded, p.index, TRUE)
    /\ preloads' = preloads \ {p}
    /\ lastOp' = Op("preloadOnLoad", p.index, p.deck, TRUE)
    /\ UNCHANGED <<props, currentSlide, isPlaying, progress, imageError,
                   isTransitioning, progressTimer, lockTimer, isFullscreen,
                   screenLoads, outside, clock, run>>

\* img.onerror of a preload started by the [slides] effect; a slide on screen
\* whose record becomes true swaps its <img> for the placeholder
PreloadOnError(p) ==
    /\ imageError' = Spread(imageError, p.index, TRUE)
    /\ preloads' = preloads \ {p}
    /\ screenLoads' = IF p.index = currentSlide
                      THEN screenLoads \ CurrentLoads ELSE screenLoads
    /\ lastOp' = Op("preloadOnError", p.index, p.deck, TRUE)
    /\ UNCHANGED <<props, currentSlide, isPlaying, progress, imageLoaded,
                   isTransitioning, progressTimer, lockTimer, isFullscreen,
                   outside, clock, run>>

PreloadLoaded == \E p \in preloads : PreloadOnLoad(p)

PreloadFailed == \E p \in preloads : PreloadOnError(p)

ReplaceTextDeck == ReplaceDeck(Decks(MaxLen, 0), MaxDecks)

ReplaceImageDeck == ReplaceDeck(Decks(MaxImageLen, MaxImages), MaxImageDecks)

\* the viewer driven through its rendered controls, keys, timers and props
Next ==
    \/ nextSlide
    \/ prevSlide
    \/ IndicatorClick
    \/ resetPresentation
    \/ TogglePlay
    \/ AutoplayTick
    \/ ProgressTick
    \/ ProgressTimeout
    \/ LockTimeout
    \/ ReplaceTextDeck

Spec == Init /\ [][Next]_vars

\* a paused viewer shown decks with images: indicator navigation, deck
\* replacement and the preloads' callbacks
NextImages ==
    \/ IndicatorClick
    \/ ProgressTimeout
    \/ LockTimeout
    \/ ReplaceImageDeck
    \/ PreloadLoaded
    \/ PreloadFailed

SpecImages == InitImages /\ [][NextImages]_vars

\* the same, with goToSlide also called directly with any number
NextApi == Next \/ GoToCall

SpecApi == Init /\ [][NextApi]_vars

\* ------------------------------------------------------- playback on a clock
\* the countdowns of the intervals and timeouts that exist; -1 stands for none
Countdowns == {clock.autoplay, clock.progress, clock.reset, clock.lock} \ {-1}

Min(S) == CHOOSE x \in S : \A y \in S : x <= y

\* the intervals created by the effects of the first render
StartClock ==
    [elapsed |-> 0,
     autoplay |-> IF AutoplayArmed THEN AutoplayPeriod ELSE -1,
     progress |-> IF ProgressArmed THEN ProgressPeriod ELSE -1,
     reset |-> -1,
     lock |-> -1,
     ticks |-> 0]

\* the countdowns after dt ms
Later(c, dt) ==
    [c EXCEPT !.autoplay = IF @ = -1 THEN @ ELSE @ - dt,
              !.progress = IF @ = -1 THEN @ ELSE @ - dt,
              !.reset = IF @ = -1 THEN @ ELSE @ - dt,
              !.lock = IF @ = -1 THEN @ ELSE @ - dt]

\* autoPlay set, text-only decks, the clock started by the mount
InitPlayback == Mount(Decks(MaxLen, 0), {TRUE}) /\ clock = StartClock

\* time passes up to the next callback that is due
Advance ==
    /\ clock.elapsed < MaxPeriods * AutoplayPeriod
    /\ Countdowns # {}
    /\ 0 \notin Countdowns
    /\ clock' = [Later(clock, Min(Countdowns)) EXCEPT
                   !.elapsed = @ + Min(Countdowns)]
    /\ lastOp' = Op("advance", -1, slides.id, TRUE)
    /\ UNCHANGED <<props, session, preloads, screenLoads, outside, run>>

\* as AutoplayRepeats, for a timer that fires once
AutoplayOnce == NoClock.autoplay

\* setInterval: after a callback the next one is a period away
AutoplayRepeats == AutoplayPeriod

\* The autoplay interval is due.  A change of index re-runs the progress effect:
\* its interval is replaced by a new one, and a callback of the old interval due
\* at this very instant is dropped by the cleanup or still runs.
PlaybackAutoplayTick ==
    /\ clock.autoplay = 0
    /\ AutoplayCallback
    /\ \E due \in IF currentSlide' = currentSlide
                  THEN {clock.progress}
                  ELSE IF ProgressArmed
                       THEN {ProgressPeriod} \cup ({clock.progress} \cap {0})
                       ELSE {-1} :
           clock' = [clock EXCEPT !.autoplay = AutoplayRepeats,
                                  !.progress = due,
                                  !.ticks = @ + 1]

\* the progress interval is due
PlaybackProgressTick ==
    /\ clock.progress = 0
    /\ ProgressCallback
    /\ clock' = [clock EXCEPT !.progress = ProgressPeriod]

\* autoplay left alone: only time and the two intervals act
NextPlayback ==
    \/ Advance
    \/ PlaybackAutoplayTick
    \/ PlaybackProgressTick

SpecPlayback == InitPlayback /\ [][NextPlayback]_vars

\* ---------------------------------------------------- the slide's <img> element
\* onLoad of a rendered <img>
ImgOnLoad(l) ==
    /\ imageLoaded' = Spread(imageLoaded, l.index, TRUE)
    /\ screenLoads' = screenLoads \ {l}
    /\ lastOp' = Op("imgOnLoad", l.index, l.deck, TRUE)
    /\ UNCHANGED <<props, currentSlide, isPlaying, progress, imageError,
                   isTransitioning, progressTimer, lockTimer, isFullscreen,
                   preloads, outside, clock, run>>

\* onError of a rendered <img>: handleImageError; the slide on screen swaps its
\* <img> for the placeholder
ImgOnError(l) ==
    /\ imageError' = Spread(imageError, l.index, TRUE)
    /\ screenLoads' = IF l.index = currentSlide
                      THEN screenLoads \ (CurrentLoads \cup {l})
                      ELSE screenLoads \ {l}
    /\ lastOp' = Op("imgOnError", l.index, l.deck, TRUE)
    /\ UNCHANGED <<props, currentSlide, isPlaying, progress, imageLoaded,
                   isTransitioning, progressTimer, lockTimer, isFullscreen,
                   preloads, outside, clock, run>>

ImgLoaded == \E l \in screenLoads : ImgOnLoad(l)

ImgFailed == \E l \in screenLoads : ImgOnError(l)

\* retryImageLoad(slideId): the records of the slide are set to false, so the
\* next render shows its <img> again
retryImageLoad(slideId) ==
    /\ imageError' = Spread(imageError, slideId, FALSE)
    /\ imageLoaded' = Spread(imageLoaded, slideId, FALSE)
    /\ screenLoads' = screenLoads \cup ImgLoad(slides, slideId, imageError')
    /\ lastOp' = Op("retryImageLoad", slideId, slides.id, TRUE)
    /\ UNCHANGED <<props, currentSlide, isPlaying, progress, isTransitioning,
                   progressTimer, lockTimer, isFullscreen, preloads, outside,
                   clock, run>>

\* the 'Retry loading image' button: rendered in the placeholder of the slide on
\* screen while imageError[id]
RetryClick ==
    /\ View = "slide"
    /\ Truthy(imageError, currentSlide)
    /\ retryImageLoad(currentSlide)

\* decks in which every slide carries an image
ImageDecks(maxLen) ==
    {d \in Decks(maxLen, maxLen) : d.len > 0 /\ d.imgs = 0 .. d.len - 1}

InitScreen == Mount(ImageDecks(MaxImageLen), {FALSE}) /\ clock = NoClock

\* a paused viewer showing one deck of images: indicator navigation, the
\* callbacks of the preloads and of the rendered <img>, manual retry
NextScreen ==
    \/ IndicatorClick
    \/ ProgressTimeout
    \/ LockTimeout
    \/ PreloadLoaded
    \/ PreloadFailed
    \/ ImgLoaded
    \/ ImgFailed
    \/ RetryClick

\* the preload of slide index reports
PreloadSettles(index) ==
    \E p \in preloads : p.index = index /\ (PreloadOnLoad(p) \/ PreloadOnError(p))

\* the rendered <img> of slide index reports
ImgSettles(index) ==
    \E l \in screenLoads : l.index = index /\ (ImgOnLoad(l) \/ ImgOnError(l))

\* every load that is still attached reports, every timeout fires
FairScreen ==
    /\ WF_vars(ProgressTimeout)
    /\ WF_vars(LockTimeout)
    /\ \A i \in 0 .. MaxImageLen - 1 : WF_vars(PreloadSettles(i))
    /\ \A i \in 0 .. MaxImageLen - 1 : WF_vars(ImgSettles(i))

SpecScreen == InitScreen /\ [][NextScreen]_vars /\ FairScreen

\* ------------------------------------------------------ fullscreen and keys
\* toggleFullscreen: the request goes to the document, the flag is set at once
ToggleFullscreenCall(name) ==
    /\ IF ~host.fullscreen
       THEN /\ host' = [host EXCEPT !.request = "enter"]
            /\ isFullscreen' = TRUE
       ELSE /\ host' = [host EXCEPT !.request = "exit"]
            /\ isFullscreen' = FALSE
    /\ lastOp' = Op(name, -1, slides.id, TRUE)
    /\ UNCHANGED <<props, currentSlide, isPlaying, progress, imageError,
                   imageLoaded, isTransitioning, progressTimer, lockTimer,
                   preloads, screenLoads, export, tool, clock,
                   run>>

\* fullscreen button
toggleFullscreen == ToggleFullscreenCall("toggleFullscreen")

\* requestFullscreen() is granted: the document enters fullscreen and dispatches
\* fullscreenchange
HostGrants ==
    /\ host.request = "enter"
    /\ host' = [fullscreen |-> TRUE, request |-> "none", event |-> TRUE]
    /\ lastOp' = Op("hostGrants", -1, slides.id, TRUE)
    /\ UNCHANGED <<props, session, preloads, screenLoads, export, tool, clock,
                   run>>

\* requestFullscreen() is rejected: .catch logs the error, no fullscreenchange
HostRejects ==
    /\ host.request = "enter"
    /\ host' = [host EXCEPT !.request = "none"]
    /\ lastOp' = Op("hostRejects", -1, slides.id, TRUE)
    /\ UNCHANGED <<props, session, preloads, screenLoads, export, tool, clock,
                   run>>

\* the document after leaving fullscreen, if it was in it
Left(h) ==
    IF h.fullscreen THEN [h EXCEPT !.fullscreen = FALSE, !.event = TRUE] ELSE h

\* document.exitFullscreen() completes
HostExitsOnRequest ==
    /\ host.request = "exit"
    /\ host' = [Left(host) EXCEPT !.request = "none"]
    /\ lastOp' = Op("hostExitsOnRequest", -1, slides.id, TRUE)
    /\ UNCHANGED <<props, session, preloads, screenLoads, export, tool, clock,
                   run>>

\* the user leaves fullscreen through the browser, not through the viewer
HostExits ==
    /\ host.fullscreen
    /\ host' = Left(host)
    /\ lastOp' = Op("hostExits", -1, slides.id, TRUE)
    /\ UNCHANGED <<props, session, preloads, screenLoads, export, tool, clock,
                   run>>

\* handleFullscreenChange: setIsFullscreen(!!document.fullscreenElement)
FullscreenChange ==
    /\ host.event
    /\ isFullscreen' = host.fullscreen
    /\ host' = [host EXCEPT !.event = FALSE]
    /\ lastOp' = Op("fullscreenchange", -1, slides.id, TRUE)
    /\ UNCHANGED <<props, currentSlide, isPlaying, progress, imageError,
                   imageLoaded, isTransitioning, progressTimer, lockTimer,
                   preloads, screenLoads, export, tool, clock,
                   run>>

\* the Escape branch: setIsFullscreen(false).  A document in fullscreen leaves it
\* on Escape by itself, whatever the page does with the key.
EscapeCall(name) ==
    /\ isFullscreen' = FALSE
    /\ host' = Left(host)
    /\ lastOp' = Op(name, -1, slides.id, TRUE)
    /\ UNCHANGED <<props, currentSlide, isPlaying, progress, imageError,
                   imageLoaded, isTransitioning, progressTimer, lockTimer,
                   preloads, screenLoads, export, tool, clock,
                   run>>

\* Escape while the flag is not set: no branch of the handler matches
EscapeIgnored(name) ==
    /\ host' = Left(host)
    /\ lastOp' = Op(name, -1, slides.id, FALSE)
    /\ UNCHANGED <<props, session, preloads, screenLoads, export, tool, clock,
                   run>>

\* the keys the handler knows, and one it does not
Keys == {"ArrowLeft", "ArrowRight", " ", "k", "Escape", "f", "0", "x"}

\* handleKeyPress(event), event.key = key
handleKeyPress(key) ==
    IF key = "ArrowLeft" /\ ~isTransitioning THEN PrevSlideCall(key)
    ELSE IF key = "ArrowRight" /\ ~isTransitioning THEN NextSlideCall(key)
    ELSE IF key = " " \/ key = "k" THEN TogglePlayCall(key)
    ELSE IF key = "Escape" /\ isFullscreen THEN EscapeCall(key)
    ELSE IF key = "f" THEN ToggleFullscreenCall(key)
    ELSE IF key = "0" THEN ResetCall(key)
    ELSE IF key = "Escape" THEN EscapeIgnored(key)
    ELSE Ignored(key)

KeyPress == \E key \in Keys : handleKeyPress(key)

\* text-only decks, either autoPlay setting
InitKeys == Mount(Decks(MaxImageLen, 0), BOOLEAN) /\ clock = NoClock

\* the viewer driven from the keyboard, with the timers and the document's
\* fullscreen state
NextKeys ==
    \/ KeyPress
    \/ AutoplayTick
    \/ ProgressTick
    \/ ProgressTimeout
    \/ LockTimeout
    \/ HostGrants
    \/ HostRejects
    \/ HostExitsOnRequest
    \/ HostExits
    \/ FullscreenChange

SpecKeys == InitKeys /\ [][NextKeys]_vars

\* decks of which one slide may carry an image, showProgress at its default
InitButtons ==
    Mount(Decks(MaxImageLen, MaxImages), BOOLEAN) /\ showProgress /\ clock = NoClock

\* the viewer driven through its buttons, with the timers, the preload
\* callbacks and a document that grants what it is asked
NextButtons ==
    \/ IndicatorClick
    \/ resetPresentation
    \/ TogglePlay
    \/ toggleFullscreen
    \/ AutoplayTick
    \/ ProgressTick
    \/ ProgressTimeout
    \/ LockTimeout
    \/ PreloadLoaded
    \/ PreloadFailed
    \/ HostGrants
    \/ HostExitsOnRequest
    \/ FullscreenChange

SpecButtons == InitButtons /\ [][NextButtons]_vars

\* ------------------------------------------------------------------ export
\* exportPresentation is called (export button, share button): the closure holds
\* the deck and the imageError record of the render it was created in
ExportStart ==
    /\ export.pc # "running"
    /\ export' = [pc |-> "running", title |-> title, deck |-> slides,
                  error |-> imageError, i |-> 0, pages |-> <<>>, alerts |-> 0,
                  file |-> <<>>]
    /\ lastOp' = Op("exportStart", -1, slides.id, TRUE)
    /\ UNCHANGED <<props, session, preloads, screenLoads, host, tool, clock,
                   run>>

\* slide.imageUrl && !imageError[slide.id]
ExportLoadsImage(e) == e.i \in e.deck.imgs /\ ~Truthy(e.error, e.i)

\* what the image block leaves on the page of slide e.i: nothing when the block
\* is skipped; else the image, or the text 'Image could not be loaded' written by
\* the inner catch when the load or addImage fails
ImageOutcomes(e) ==
    IF ExportLoadsImage(e) THEN {"embedded", "marker"} ELSE {"none"}

\* as ExportSlide, with no try/catch around the image block
ExportSlideUnguarded ==
    /\ export.pc = "running"
    /\ export.i < export.deck.len
    /\ \E image \in ImageOutcomes(export) :
           export' = IF image = "marker"
                     THEN [export EXCEPT !.pc = "failed", !.alerts = @ + 1]
                     ELSE [export EXCEPT
                             !.pages = Append(@, [slide |-> export.i, image |-> image]),
                             !.i = @ + 1]
    /\ lastOp' = Op("exportSlide", export.i, export.deck.id, TRUE)
    /\ UNCHANGED <<props, session, preloads, screenLoads, host, tool, clock,
                   run>>

\* as ExportSlide, with an alert in the inner catch as well
ExportSlideAlerting ==
    /\ export.pc = "running"
    /\ export.i < export.deck.len
    /\ \E image \in ImageOutcomes(export) :
           export' = [export EXCEPT
                        !.pages = Append(@, [slide |-> export.i, image |-> image]),
                        !.i = @ + 1,
                        !.alerts = IF image = "marker" THEN @ + 1 ELSE @]
    /\ lastOp' = Op("exportSlide", export.i, export.deck.id, TRUE)
    /\ UNCHANGED <<props, session, preloads, screenLoads, host, tool, clock,
                   run>>

\* one turn of the loop over slidesWithIds: the page of slide i
ExportSlide ==
    /\ export.pc = "running"
    /\ export.i < export.deck.len
    /\ \E image \in ImageOutcomes(export) :
           export' = [export EXCEPT
                        !.pages = Append(@, [slide |-> export.i, image |-> image]),
                        !.i = @ + 1]
    /\ lastOp' = Op("exportSlide", export.i, export.deck.id, TRUE)
    /\ UNCHANGED <<props, session, preloads, screenLoads, host, tool, clock,
                   run>>

\* pdf.save(...)
ExportSave ==
    /\ export.pc = "running"
    /\ export.i = export.deck.len
    /\ export' = [export EXCEPT !.pc = "saved", !.file = FileName(export.title)]
    /\ lastOp' = Op("exportSave", -1, export.deck.id, TRUE)
    /\ UNCHANGED <<props, session, preloads, screenLoads, host, tool, clock,
                   run>>

\* a call outside the image block throws: the outer catch logs and alerts
ExportThrows ==
    /\ export.pc = "running"
    /\ export' = [export EXCEPT !.pc = "failed", !.alerts = @ + 1]
    /\ lastOp' = Op("exportThrows", -1, export.deck.id, TRUE)
    /\ UNCHANGED <<props, session, preloads, screenLoads, host, tool, clock,
                   run>>

\* a paused viewer shown one deck with images and exported: indicator
\* navigation, the preload callbacks and the export
NextExport ==
    \/ IndicatorClick
    \/ ProgressTimeout
    \/ LockTimeout
    \/ PreloadLoaded
    \/ PreloadFailed
    \/ ExportStart
    \/ ExportSlide
    \/ ExportSave
    \/ ExportThrows

SpecExport == InitImages /\ [][NextExport]_vars

\* decks of at most one slide under any title
InitNames ==
    MountTitled(Titles(MaxTitleLen), Decks(MaxImages, MaxImages), {FALSE})
        /\ clock = NoClock

\* titled decks exported, with the preload callbacks
NextNames ==
    \/ PreloadLoaded
    \/ PreloadFailed
    \/ ExportStart
    \/ ExportSlide
    \/ ExportSave
    \/ ExportThrows

SpecNames == InitNames /\ [][NextNames]_vars

\* ------------------------------------------------- inputs and timers on a clock
\* The effects re-run by the render that follows an input: the autoplay effect
\* when isPlaying changed, the progress effect when isPlaying or currentSlide
\* changed.  A re-run clears the old interval and, while playing, creates a new
\* one.
Rerun(c) ==
    [c EXCEPT
       !.autoplay = IF isPlaying' = isPlaying THEN @
                    ELSE IF isPlaying' THEN AutoplayPeriod ELSE -1,
       !.progress = IF isPlaying' = isPlaying /\ currentSlide' = currentSlide THEN @
                    ELSE IF isPlaying' /\ showProgress THEN ProgressPeriod ELSE -1]

\* In SpecTimed clock.elapsed and clock.ticks follow the playback from the
\* mount for as long as no input has acted on it and for MaxPeriods periods at
\* most; afterwards elapsed is -1 and ticks is 0.
Interrupted(c) == [c EXCEPT !.elapsed = -1, !.ticks = 0]

\* as Navigated, the release of the lock not armed
NavigatedUnreleased ==
    clock' = IF NavBlocked
             THEN clock
             ELSE Interrupted([Rerun(clock) EXCEPT
                                 !.reset = ProgressResetDelay])

\* a navigation handler called at some instant: an accepted call sets the two
\* timeouts
Navigated ==
    clock' = IF NavBlocked
             THEN clock
             ELSE Interrupted([Rerun(clock) EXCEPT
                                 !.reset = ProgressResetDelay,
                                 !.lock = LockDelay])

TimedNext == NextSlideBody("nextSlide") /\ Navigated

TimedPrev == PrevSlideBody("prevSlide") /\ Navigated

TimedGoTo == \E index \in 0 .. length - 1 : GoToBody(index) /\ Navigated

\* play/pause at some instant
TimedTogglePlay ==
    /\ TogglePlayBody("togglePlay")
    /\ clock' = Interrupted(Rerun(clock))

\* resetPresentation at some instant
TimedReset ==
    /\ ResetBody("resetPresentation")
    /\ clock' = Interrupted(Rerun(clock))

\* the autoplay interval is due (see PlaybackAutoplayTick for the progress
\* interval)
TimedAutoplayTick ==
    /\ clock.autoplay = 0
    /\ AutoplayCallback
    /\ \E due \in IF currentSlide' = currentSlide
                  THEN {clock.progress}
                  ELSE IF ProgressArmed
                       THEN {ProgressPeriod} \cup ({clock.progress} \cap {0})
                       ELSE {-1} :
           clock' = [clock EXCEPT !.autoplay = AutoplayRepeats,
                                  !.progress = due,
                                  !.ticks = IF clock.elapsed < 0 THEN 0 ELSE @ + 1]

\* the 50ms timeout of a navigation is due
TimedProgressTimeout ==
    /\ clock.reset = 0
    /\ ProgressTimeoutCallback
    /\ clock' = [clock EXCEPT !.reset = -1]

\* the 400ms timeout of a navigation is due
TimedLockTimeout ==
    /\ clock.lock = 0
    /\ LockTimeoutCallback
    /\ clock' = [clock EXCEPT !.lock = -1]

\* time passes up to the next callback that is due
Pass ==
    /\ Countdowns # {}
    /\ 0 \notin Countdowns
    /\ clock' = IF /\ clock.elapsed >= 0
                   /\ clock.elapsed + Min(Countdowns) <= MaxPeriods * AutoplayPeriod
                THEN [Later(clock, Min(Countdowns)) EXCEPT
                        !.elapsed = @ + Min(Countdowns)]
                ELSE Interrupted(Later(clock, Min(Countdowns)))
    /\ lastOp' = Op("pass", -1, slides.id, TRUE)
    /\ UNCHANGED <<props, session, preloads, screenLoads, outside, run>>

\* text-only decks, the clock started by the mount
InitTimed == Mount(Decks(MaxImageLen, 0), BOOLEAN) /\ clock = StartClock

\* the navigations, play/pause and reset at the instants of the callbacks, and
\* the four timers
NextTimed ==
    \/ TimedNext
    \/ TimedPrev
    \/ TimedGoTo
    \/ TimedTogglePlay
    \/ TimedReset
    \/ TimedAutoplayTick
    \/ PlaybackProgressTick
    \/ TimedProgressTimeout
    \/ TimedLockTimeout
    \/ Pass

\* time does not stop and a callback that is due runs
FairTimed ==
    /\ WF_vars(Pass)
    /\ WF_vars(TimedAutoplayTick)
    /\ WF_vars(PlaybackProgressTick)
    /\ WF_vars(TimedProgressTimeout)
    /\ WF_vars(TimedLockTimeout)

SpecTimed == InitTimed /\ [][NextTimed]_vars /\ FairTimed

\* the navigations and the timers, playback left as the mount started it
NextLock ==
    \/ TimedNext
    \/ TimedPrev
    \/ TimedGoTo
    \/ TimedAutoplayTick
    \/ PlaybackProgressTick
    \/ TimedProgressTimeout
    \/ TimedLockTimeout
    \/ Pass

SpecLock == InitTimed /\ [][NextLock]_vars /\ FairTimed

\* ------------------------------------------------ the generate-presentation call
\* the tool is called: parameters destructured, template looked up (matched) or
\* slides generated, slides trimmed; without images the call returns at once,
\* with images one search per slide is started
ToolCall ==
    /\ tool.pc = "idle"
    /\ \E slideCount \in Optional(MinSlideCount .. MaxSlideCount),
          includeImages \in Optional(BOOLEAN),
          matched \in BOOLEAN :
          LET count == Default(slideCount, DefaultSlideCount)
              template == IF matched THEN TemplateSlides ELSE DynamicSlides(count)
              selected == Slice(template, count)
          IN  tool' = [pc |-> IF Default(includeImages, TRUE)
                              THEN "searching" ELSE "returned",
                       slideCount |-> slideCount,
                       includeImages |-> includeImages,
                       matched |-> matched,
                       selected |-> selected,
                       searches |-> [i \in 1 .. Len(selected) |-> "pending"],
                       slides |-> IF Default(includeImages, TRUE)
                                  THEN <<>> ELSE selected]
    /\ lastOp' = Op("toolCall", -1, slides.id, TRUE)
    /\ UNCHANGED <<props, session, preloads, screenLoads, host, export, clock,
                   run>>

\* as ToolSearch, the search called without try/catch: a search that throws
\* rejects the Promise.all and with it the call
ToolSearchUncaught(i) ==
    /\ tool.pc = "searching"
    /\ i \in DOMAIN tool.searches
    /\ tool.searches[i] = "pending"
    /\ \E outcome \in SearchOutcomes :
          tool' = IF outcome = "failed"
                  THEN [tool EXCEPT !.pc = "threw"]
                  ELSE [tool EXCEPT !.searches[i] = outcome]
    /\ lastOp' = Op("toolSearch", -1, slides.id, TRUE)
    /\ UNCHANGED <<props, session, preloads, screenLoads, host, export, clock,
                   run>>

\* the search of slide i settles, in the try or in the catch of its callback
ToolSearch(i) ==
    /\ tool.pc = "searching"
    /\ i \in DOMAIN tool.searches
    /\ tool.searches[i] = "pending"
    /\ \E outcome \in SearchOutcomes :
          tool' = [tool EXCEPT !.searches[i] = outcome]
    /\ lastOp' = Op("toolSearch", -1, slides.id, TRUE)
    /\ UNCHANGED <<props, session, preloads, screenLoads, host, export, clock,
                   run>>

ToolSearches == \E i \in 1 .. MaxSlideCount : ToolSearch(i)

\* Promise.all resolves with the slides in their order and the call returns
ToolReturn ==
    /\ tool.pc = "searching"
    /\ \A i \in DOMAIN tool.searches : tool.searches[i] # "pending"
    /\ tool' = [tool EXCEPT
                  !.pc = "returned",
                  !.slides = [i \in 1 .. Len(tool.selected) |->
                                WithImage(tool.selected[i], tool.searches[i])]]
    /\ lastOp' = Op("toolReturn", -1, slides.id, TRUE)
    /\ UNCHANGED <<props, session, preloads, screenLoads, host, export, clock,
                   run>>

\* no deck on screen yet
InitTool == Mount(Decks(0, 0), {FALSE}) /\ showProgress /\ clock = NoClock

\* one call of the tool
NextTool ==
    \/ ToolCall
    \/ ToolSearches
    \/ ToolReturn

SpecTool == InitTool /\ [][NextTool]_vars

\* ------------------------------------------------------------ properties
NavOps == {"nextSlide", "prevSlide", "goToSlide"}

\* C1: whenever the deck is non-empty the current index is in 0..length-1.
IndexInRange == length > 0 => currentSlide \in 0 .. length - 1

\* C1: a deck replaced by a shorter one while a later slide is shown
IndexBeyondDeck ==
    /\ lastOp.name = "replaceDeck"
    /\ length > 0
    /\ currentSlide >= length

\* C2: a nextSlide, prevSlide or goToSlide call made while the transition lock is
\* held is refused and leaves the index, the lock and its timer as they were, and
\* the release of the lock applies no deferred navigation.
LockDiscardsNavigation ==
    [][/\ (isTransitioning /\ lastOp'.name \in NavOps)
            => /\ ~lastOp'.accepted
               /\ currentSlide' = currentSlide
               /\ isTransitioning'
               /\ lockTimer' = lockTimer
       /\ lastOp'.name = "lockTimeout" => currentSlide' = currentSlide]_vars

\* C2: a navigation call refused because of the lock alone
NavigationDiscarded ==
    /\ lastOp.name \in NavOps
    /\ ~lastOp.accepted
    /\ isTransitioning
    /\ length >= 2

\* C3: while the lock taken by a manual navigation is held, an autoplay tick does
\* not change the current index.
AutoplayRespectsLock ==
    [][(isTransitioning /\ lastOp'.name = "autoplayTick")
          => currentSlide' = currentSlide]_vars

\* C3: an autoplay tick that ran while the lock was held
AutoplayDuringLock ==
    /\ lastOp.name = "autoplayTick"
    /\ isTransitioning
    /\ length >= 2

\* C4: goToSlide(i) with i outside 0..length-1 leaves the session state unchanged.
GoToOutOfRangeIsNoOp ==
    [][(lastOp'.name = "goToSlide" /\ lastOp'.arg \notin 0 .. length - 1)
          => UNCHANGED session]_vars

\* C4: an out-of-range goToSlide call that got past the guard
GoToOutOfRangeAccepted ==
    /\ lastOp.name = "goToSlide"
    /\ lastOp.accepted
    /\ lastOp.arg \notin 0 .. length - 1

\* C5: from an index i in 0..N-1 an accepted nextSlide moves to (i+1) mod N and an
\* accepted prevSlide to (i-1+N) mod N.
NextPrevWrap ==
    [][/\ (lastOp'.name = "nextSlide" /\ lastOp'.accepted
              /\ currentSlide \in 0 .. length - 1)
            => currentSlide' = (currentSlide + 1) % length
       /\ (lastOp'.name = "prevSlide" /\ lastOp'.accepted
              /\ currentSlide \in 0 .. length - 1)
            => currentSlide' = (currentSlide - 1 + length) % length]_vars

\* C5: an accepted nextSlide that wrapped from the last slide to the first
NextWrapped ==
    /\ lastOp.name = "nextSlide"
    /\ lastOp.accepted
    /\ length >= 2
    /\ run = [op |-> "nextSlide", start |-> length - 1, count |-> 1]
    /\ currentSlide = 0

\* C6: after N accepted nextSlide calls in a row, or N accepted prevSlide calls in
\* a row, started at an index of the deck, the index is back at its start.
CycleReturns ==
    (run.op \in {"nextSlide", "prevSlide"} /\ run.count = length
        /\ run.start \in 0 .. length - 1)
      => currentSlide = run.start

\* C6: a full round of prevSlide calls on a deck of three or more slides
CycleCompleted ==
    /\ run.op = "prevSlide"
    /\ length >= 3
    /\ run.count = length
    /\ run.start = 1
    /\ currentSlide = 1

\* C7: a deck replacement sets the index to 0 and isPlaying to the autoPlay prop.
ReplaceReinitializes ==
    [][lastOp'.name = "replaceDeck"
          => (currentSlide' = 0 /\ isPlaying' = autoPlay)]_vars

\* C7: a deck replacement that left a non-zero index in place
ReplaceKeptIndex ==
    /\ lastOp.name = "replaceDeck"
    /\ currentSlide > 0

\* C8: right after a deck replacement every slide of the new deck is pending.
ReplaceClearsImageStates ==
    lastOp.name = "replaceDeck"
      => \A i \in 0 .. length - 1 :
            ImageStatus(imageLoaded, imageError, i) = "pending"

\* C8: a replacement that found image records and brought a deck with images
ReplaceDiscardedRecords ==
    /\ lastOp.name = "replaceDeck"
    /\ lastOp.arg > 0
    /\ slides.imgs # {}
    /\ imageLoaded = EmptyRecord
    /\ imageError = EmptyRecord

\* C9: the callback of a preload started for a deck that has been replaced since
\* changes the image status of no slide of the current deck.
StalePreloadDiscarded ==
    [][(lastOp'.name \in {"preloadOnLoad", "preloadOnError"}
          /\ lastOp'.deck # slides.id)
          => \A i \in 0 .. length - 1 :
                ImageStatus(imageLoaded', imageError', i)
                    = ImageStatus(imageLoaded, imageError, i)]_vars

\* C9: a slide of the current deck marked failed by a superseded deck's preload
StalePreloadApplied ==
    /\ lastOp.name = "preloadOnError"
    /\ lastOp.deck # slides.id
    /\ ImageStatus(imageLoaded, imageError, lastOp.arg) = "failed"
    /\ lastOp.arg \in slides.imgs

\* C10: while isPlaying is false the index changes only by nextSlide, prevSlide,
\* goToSlide or resetPresentation, never by the autoplay interval.
PausedNoAutoAdvance ==
    [][(~isPlaying /\ currentSlide' # currentSlide)
          => lastOp'.name \in NavOps \cup {"resetPresentation"}]_vars

\* C10: playback just paused on a deck where an advance would show
PlaybackPaused ==
    /\ lastOp.name = "togglePlay"
    /\ ~isPlaying
    /\ length >= 2
    /\ currentSlide > 0

\* C11: in playback without input the autoplay callback has run once for every
\* elapsed period of 5000ms (the one due at this instant excepted), the index is the start index plus the number of
\* elapsed periods modulo the deck length, and each automatic advance leaves
\* progress at 0.
AutoplayAdvancesPerPeriod ==
    /\ clock.ticks = IF clock.autoplay = 0
                     THEN clock.elapsed \div AutoplayPeriod - 1
                     ELSE clock.elapsed \div AutoplayPeriod
    /\ length > 0 => currentSlide = (0 + clock.ticks) % length
    /\ lastOp.name = "autoplayTick" => progress = 0

ThreePeriodsWrapped ==
    /\ length = 3
    /\ clock.elapsed = 3 * AutoplayPeriod
    /\ clock.ticks = 3
    /\ currentSlide = 0
    /\ lastOp.name = "autoplayTick"

\* the image status the renderer derives for slide index, now and after the step
StatusOf(index) == ImageStatus(imageLoaded, imageError, index)

ImageOps == {"preloadOnLoad", "preloadOnError", "imgOnLoad", "imgOnError",
             "retryImageLoad"}

\* C12: a load success, a load failure or a retry concerning slide n leaves the
\* image status of every other slide and the current index unchanged.
PerSlideIsolation ==
    [][lastOp'.name \in ImageOps =>
          /\ currentSlide' = currentSlide
          /\ \A m \in (0 .. length - 1) \ {lastOp'.arg} :
                 ImageStatus(imageLoaded', imageError', m) = StatusOf(m)]_vars

SiblingKeptLoaded ==
    /\ length = 2
    /\ lastOp.name \in {"preloadOnError", "retryImageLoad"}
    /\ lastOp.arg = 1
    /\ StatusOf(0) = "loaded"

\* C13: a retry of a failed slide leaves it pending with a load attempt issued,
\* that attempt eventually marks the slide loaded or failed, and a failed slide
\* leaves that status by a retry only.
RetryReloads ==
    /\ [](lastOp.name = "retryImageLoad" =>
              /\ StatusOf(lastOp.arg) = "pending"
              /\ [deck |-> lastOp.deck, index |-> lastOp.arg] \in screenLoads)
    /\ [][\A n \in 0 .. length - 1 :
              StatusOf(n) = "failed"
                  /\ ImageStatus(imageLoaded', imageError', n) # "failed"
              => lastOp'.name = "retryImageLoad" /\ lastOp'.arg = n]_vars
    /\ \A n \in 0 .. MaxImageLen - 1 :
           (lastOp.name = "retryImageLoad" /\ lastOp.arg = n)
               ~> (StatusOf(n) \in {"loaded", "failed"})

RetryAbandoned ==
    \E n \in 0 .. length - 1 :
        /\ n # currentSlide
        /\ n \in DOMAIN imageError /\ ~imageError[n]
        /\ StatusOf(n) = "pending"
        /\ screenLoads = {}
        /\ preloads = {}

\* C14: resetPresentation, from any state, sets the index to 0, isPlaying to the
\* autoPlay prop and progress to 0, and leaves the image records and the
\* fullscreen flag as they are.
ResetEffect ==
    [][lastOp'.name = "resetPresentation" =>
          /\ currentSlide' = 0
          /\ isPlaying' = autoPlay
          /\ progress' = 0
          /\ UNCHANGED <<imageError, imageLoaded, isFullscreen>>]_vars

ResetInFullscreenWithFailedImage ==
    /\ lastOp.name = "resetPresentation"
    /\ lastOp.arg > 0
    /\ isFullscreen
    /\ autoPlay
    /\ \E n \in 0 .. length - 1 : StatusOf(n) = "failed"

\* C15: while the deck is empty no operation moves the index away from 0 or
\* acquires the lock or arms its timer, and the viewer shows the empty-deck
\* fallback.
EmptyDeckInert ==
    [][length = 0 /\ slides' = slides =>
          /\ currentSlide = 0 => currentSlide' = 0
          /\ isTransitioning' => isTransitioning
          /\ lockTimer' => lockTimer
          /\ progressTimer' => progressTimer
          /\ View' = "empty"]_vars

GoToOnEmptyDeck ==
    /\ length = 0
    /\ lastOp.name = "goToSlide"
    /\ lastOp.arg > 0
    /\ lastOp.deck = slides.id
    /\ currentSlide = 0
    /\ isPlaying

\* C16: ArrowLeft / ArrowRight act as prevSlide / nextSlide and change nothing
\* while the lock is held; the play/pause keys, the fullscreen key and the reset
\* key act while the lock is held as they do without it, and leave the lock and
\* its timer as they are.
KeysAndLock ==
    [][/\ lastOp'.name \in {"ArrowLeft", "ArrowRight"} /\ isTransitioning
              => UNCHANGED <<props, session, host>>
       /\ lastOp'.name = "ArrowLeft" /\ ~NavBlocked
              => /\ currentSlide' = PrevIndex(currentSlide, length)
                 /\ isTransitioning'
       /\ lastOp'.name = "ArrowRight" /\ ~NavBlocked
              => /\ currentSlide' = NextIndex(currentSlide, length)
                 /\ isTransitioning'
       /\ lastOp'.name \in {" ", "k"}
              => /\ isPlaying' = ~isPlaying
                 /\ UNCHANGED <<isTransitioning, lockTimer>>
       /\ lastOp'.name = "f"
              => /\ host'.request = IF host.fullscreen THEN "exit" ELSE "enter"
                 /\ isFullscreen' = ~host.fullscreen
                 /\ UNCHANGED <<isTransitioning, lockTimer>>
       /\ lastOp'.name = "0"
              => /\ currentSlide' = 0 /\ isPlaying' = autoPlay /\ progress' = 0
                 /\ UNCHANGED <<isTransitioning, lockTimer>>]_vars

ResetKeyDuringLock ==
    /\ lastOp.name = "0"
    /\ lastOp.arg > 0
    /\ isTransitioning
    /\ lockTimer

\* C17: when no fullscreen request is in progress and no fullscreenchange event
\* is waiting, the flag equals the document's fullscreen status.
FullscreenInSync ==
    (host.request = "none" /\ ~host.event) => isFullscreen = host.fullscreen

FlagSetAfterRejection ==
    /\ lastOp.name = "hostRejects"
    /\ host.request = "none" /\ ~host.event
    /\ ~host.fullscreen
    /\ isFullscreen

ExportOps == {"exportStart", "exportSlide", "exportSave", "exportThrows"}

\* C18: the export writes one page per slide in deck order; a turn of the loop,
\* whatever happens to the slide's image, adds the slide's page and leaves the
\* export running, and the document that is saved has a page for every slide.
ExportPagesInOrder ==
    /\ Len(export.pages) = export.i
    /\ \A k \in 1 .. Len(export.pages) : export.pages[k].slide = k - 1
    /\ lastOp.name = "exportSlide" =>
           /\ export.pc = "running"
           /\ export.i = lastOp.arg + 1
    /\ export.pc = "saved" => export.i = export.deck.len

SavedAfterImageFailure ==
    /\ export.pc = "saved"
    /\ export.deck.len = 2
    /\ export.pages[1].image = "marker"
    /\ export.pages[2].slide = 1

\* C19: in the exported document the page of a slide that has an image and whose
\* imageError record was set when the export began carries the 'Image could not
\* be loaded' text and no image, and an image is embedded only on the page of a
\* slide whose image the export loaded.
FailedSlideGetsMarker ==
    \A k \in 1 .. Len(export.pages) :
        LET n == export.pages[k].slide IN
            /\ n \in export.deck.imgs /\ Truthy(export.error, n)
                   => export.pages[k].image = "marker"
            /\ export.pages[k].image = "embedded"
                   => n \in export.deck.imgs /\ ~Truthy(export.error, n)

FailedSlidePageEmpty ==
    /\ export.pc = "saved"
    /\ \E k \in 1 .. Len(export.pages) :
           /\ export.pages[k].slide \in export.deck.imgs
           /\ Truthy(export.error, export.pages[k].slide)
           /\ StatusOf(export.pages[k].slide) = "failed"
           /\ export.pages[k].image = "none"

\* C20: no step of the export changes the viewer's state or its props, and the
\* export has alerted once if it failed and not at all otherwise.
ExportLeavesSession ==
    /\ [][lastOp'.name \in ExportOps =>
              UNCHANGED <<props, session, preloads, screenLoads, host>>]_vars
    /\ [](export.alerts = IF export.pc = "failed" THEN 1 ELSE 0)

ExportFailedMidway ==
    /\ export.pc = "failed"
    /\ export.alerts = 1
    /\ export.i > 0
    /\ isTransitioning
    /\ currentSlide > 0
    /\ \E n \in 0 .. length - 1 : StatusOf(n) = "loaded"

\* C25: every change of the slide on screen resets progress to 0: an automatic
\* advance, a reset and a deck replacement leave progress at 0; an accepted
\* manual navigation arms the timeout whose callback sets progress to 0.
ProgressResetOnSlideChange ==
    /\ lastOp.name \in {"autoplayTick", "resetPresentation", "replaceDeck",
                        "progressTimeout"}
           => progress = 0
    /\ lastOp.name \in NavOps /\ lastOp.accepted => progressTimer

ProgressKeptAcrossDecks ==
    /\ lastOp.name = "replaceDeck"
    /\ showProgress
    /\ progress > 0
    /\ length > 0

\* C29: no slide has both its imageLoaded and its imageError record set.
LoadedXorFailed ==
    \A n \in 0 .. length - 1 :
        ~(Truthy(imageLoaded, n) /\ Truthy(imageError, n))

LoadedAndFailed ==
    \E n \in 0 .. length - 1 :
        /\ Truthy(imageLoaded, n)
        /\ Truthy(imageError, n)
        /\ lastOp.name = "imgOnError"
        /\ lastOp.arg = n

\* C30: resetPresentation leaves the lock and its timer as they are; the lock is
\* taken by an accepted navigation only, and only when no release timer is
\* outstanding; it is released by the callback of that timer only; and the lock
\* is held exactly while its timer is outstanding.
LockOwnedByNavigation ==
    /\ [](isTransitioning = lockTimer)
    /\ [][/\ lastOp'.name \in {"0", "resetPresentation"}
                 => UNCHANGED <<isTransitioning, lockTimer>>
          /\ lastOp'.name \in {"ArrowLeft", "ArrowRight"} /\ lastOp'.accepted
                 => ~lockTimer /\ lockTimer' /\ isTransitioning'
          /\ ~isTransitioning /\ isTransitioning'
                 => lastOp'.name \in {"ArrowLeft", "ArrowRight"} /\ lastOp'.accepted
          /\ isTransitioning /\ ~isTransitioning'
                 => lastOp'.name = "lockTimeout"
          /\ lockTimer /\ ~lockTimer'
                 => lastOp'.name = "lockTimeout"]_vars

ResetBetweenTimeouts ==
    /\ lastOp.name = "0"
    /\ lastOp.arg > 0
    /\ currentSlide = 0
    /\ isTransitioning
    /\ lockTimer
    /\ ~progressTimer

\* C23: the name of the saved file has one element per character of the title
\* followed by the suffix '_presentation.pdf'; an ASCII letter or digit of the
\* title appears lower-cased at its place, any other character is replaced by
\* '_'; nothing but the title enters the name.
FileNameFromTitle ==
    export.pc = "saved" =>
        /\ Len(export.file) = Len(export.title) + 1
        /\ export.file[Len(export.file)] = Suffix
        /\ \A k \in 1 .. Len(export.title) :
               export.file[k] = CASE export.title[k] = "a" -> "a"
                                  [] export.title[k] = "Z" -> "z"
                                  [] export.title[k] = "7" -> "7"
                                  [] OTHER -> "_"

MixedTitleSaved ==
    /\ export.pc = "saved"
    /\ export.title = <<"Z", " ">>
    /\ export.file = <<"z", "_", Suffix>>
    /\ export.deck.len > 0

ManualNavs == {"nextSlide", "prevSlide", "goToSlide"}

\* C24: an accepted nextSlide, prevSlide or goToSlide takes the transition lock
\* and arms its release LockDelay (400ms) ahead; the lock is held exactly while
\* that release is outstanding and is dropped by the release callback only; a
\* navigation on a non-empty deck whose lock is free is accepted; and a held
\* lock is always released again.
LockReleasedAfterSettleDelay ==
    /\ [](isTransitioning <=> clock.lock \in 0 .. LockDelay)
    /\ [][/\ (lastOp'.name \in ManualNavs /\ lastOp'.accepted)
                => ~isTransitioning /\ isTransitioning' /\ clock'.lock = LockDelay
          /\ (lastOp'.name \in ManualNavs /\ ~isTransitioning /\ length > 0)
                => lastOp'.accepted
          /\ (isTransitioning /\ ~isTransitioning')
                => lastOp'.name = "lockTimeout" /\ clock.lock = 0]_vars
    /\ (isTransitioning ~> ~isTransitioning)

NavigatedAgainAfterRelease ==
    /\ lastOp.name = "prevSlide"
    /\ lastOp.accepted
    /\ run.op = "prevSlide"
    /\ run.count = 2
    /\ isTransitioning
    /\ clock.lock = LockDelay

\* C27: an accepted manual navigation to another slide while playing restarts
\* the autoplay countdown, so that the slide it shows stays for a full
\* AutoplayPeriod.
NavigationRestartsAutoplay ==
    [][(/\ isPlaying
        /\ lastOp'.name \in ManualNavs
        /\ lastOp'.accepted
        /\ currentSlide' # currentSlide)
          => clock'.autoplay = AutoplayPeriod]_vars

SlideShownForLessThanAPeriod ==
    /\ isPlaying
    /\ lastOp.name = "nextSlide"
    /\ lastOp.accepted
    /\ length > 1
    /\ clock.autoplay \in 0 .. AutoplayPeriod - 1

\* C28: while playing with the progress bar shown, the bar is in step with the
\* autoplay interval to within one sub-step: an automatic advance finds the bar
\* full or one sub-step short of it, and the bar is full only when the advance
\* is at most one ProgressPeriod away.
ProgressInStepWithAutoplay ==
    (showProgress /\ isPlaying) =>
        /\ lastOp.name = "autoplayTick"
              => lastOp.arg >= ProgressMax - ProgressStep
        /\ progress = ProgressMax => clock.autoplay \in 0 .. ProgressPeriod

AdvancedWithBarPartlyFilled ==
    /\ showProgress
    /\ isPlaying
    /\ lastOp.name = "autoplayTick"
    /\ lastOp.arg < ProgressMax - ProgressStep
    /\ lastOp.arg > 0

ReturnsSlideCountSlides ==
    tool.pc = "returned" =>
        Len(tool.slides) = (IF tool.slideCount = {} THEN 5
                            ELSE CHOOSE n \in tool.slideCount : TRUE)

FewerSlidesThanRequested ==
    /\ tool.pc = "returned"
    /\ tool.slideCount = {MaxSlideCount}
    /\ ~tool.matched
    /\ Len(tool.slides) = ContentTopics + 2

====
